---- MODULE Spec2Model ----
(***************************************************************************)
(* Model of haystack_elasticsearch/elasticsearch5.py:                      *)
(*   Elasticsearch5SearchBackend (clear, more_like_this, the request       *)
(*   compiler hooks _build_search_kwargs_*, the decoder _process_results)  *)
(*   and Elasticsearch5SearchQuery.add_field_facet.                        *)
(*                                                                         *)
(* Python dicts are functions over a set of string keys (records), lists   *)
(* are sequences, None is the string "None".  Strings that the code takes  *)
(* apart (lower(), [:1], "%s%s") are sequences of one-character strings.   *)
(***************************************************************************)
EXTENDS Integers, Sequences, FiniteSets, TLC

VARIABLES
    \* ---- backend configuration and cached state (self.*)
    silently_fail,        \* self.silently_fail
    setup_complete,       \* self.setup_complete
    existing_mapping,     \* self.existing_mapping
    content_field_name,   \* self.content_field_name
    \* ---- the search engine behind self.conn
    index_exists,         \* whether self.index_name exists
    stored,               \* documents held by the index
    searchable,           \* documents visible to search (as of the last refresh)
    \* ---- the call in progress / the last call
    pc,                   \* "idle", or the position inside clear(models=[...])
    call,                 \* the arguments of the current (or last) call
    prev,                 \* the call completed before it: [op, outcome]
    models_to_delete,     \* clear: the per-type identifier tags
    gen,                  \* clear: the scan generator
    chunk,                \* clear: delete actions bulk() pulled but has not sent
    calls,                \* clear: the helper / client calls made, in order
    outcome,              \* "none" | "running" | "ok" | "raised" | "swallowed"
    logged,               \* what self.log.error was given during the call
    sent,                 \* more_like_this: the body given to conn.search
    result,               \* more_like_this: the value returned
    request,              \* the caller's arguments for the call under study
    \* ---- the request compiler / response decoder
    facets,               \* SearchQuery.facets: field -> options
    op,                   \* the compiler / decoder hook last applied
    args,                 \* its arguments
    ret,                  \* its return value
    aggs,                 \* the aggregation clause last compiled
    first_aggs,           \* the aggregation clause of the first compilation
    ncompiled             \* compilations of the request so far

backendVars == <<silently_fail, setup_complete, existing_mapping, content_field_name,
                 index_exists, stored, searchable, pc, call, prev,
                 models_to_delete, gen, chunk, calls, outcome, logged, sent, result,
                 request>>
compilerVars == <<facets, op, args, ret, aggs, first_aggs, ncompiled>>
vars == <<backendVars, compilerVars>>

-----------------------------------------------------------------------------
(* Bounds of the model *)
MaxDocs == 4          \* documents the index may hold
ScrollSize == 2       \* hits per scroll page of helpers.scan
ChunkSize == 2        \* actions per request of helpers.bulk
MaxModels == 2        \* length of a models list
MaxFilters == 3       \* narrowing filters of a search request
MaxGapAmount == 12    \* gap multiplier of a date facet
MaxBuckets == 3       \* buckets the engine returns for a terms aggregation
MaxCompiles == 2      \* times one request is compiled

-----------------------------------------------------------------------------
(* Python values *)
None == "None"
EmptyDict == [k \in {} |-> None]
Update(d, e) == [j \in DOMAIN d \cup DOMAIN e |-> IF j \in DOMAIN e THEN e[j] ELSE d[j]]

RECURSIVE Join(_, _)
Join(sep, s) ==
    IF s = <<>> THEN ""
    ELSE IF Len(s) = 1 THEN s[1]
    ELSE s[1] \o sep \o Join(sep, Tail(s))

Range(s) == {s[i] : i \in DOMAIN s}

RECURSIVE SeqsUpTo(_, _)
SeqsUpTo(S, n) ==
    IF n = 0 THEN {<<>>}
    ELSE SeqsUpTo(S, n - 1) \cup {Append(s, x) : s \in {t \in SeqsUpTo(S, n - 1) : Len(t) = n - 1}, x \in S}

-----------------------------------------------------------------------------
(* Entity types and documents *)
DJANGO_CT == "django_ct"

\* The model classes callers pass; documents of a third type are indexed too.
Models == {[app_label |-> "app", model_name |-> "x"],
           [app_label |-> "app", model_name |-> "y"]}

get_model_ct(model) == model.app_label \o "." \o model.model_name

\* The lexicographic order of the canonical type names.
CtOrder == <<"app.x", "app.y", "app.z">>
CtRank(ct) == CHOOSE i \in DOMAIN CtOrder : CtOrder[i] = ct

\* Document d of the universe is of type CtOrder[((d - 1) % 3) + 1].
DocIds == 1..MaxDocs
DocCt(d) == CtOrder[((d - 1) % 3) + 1]

ModelLists == SeqsUpTo(Models, MaxModels)

-----------------------------------------------------------------------------
(* clear(models=None)  /  clear(models=[...]) *)

Min(S) == CHOOSE x \in S : \A y \in S : x <= y

\* The n smallest elements of S (a scroll returns hits in index order).
RECURSIVE TakeMin(_, _)
TakeMin(S, n) ==
    IF n = 0 \/ S = {} THEN {}
    ELSE {Min(S)} \cup TakeMin(S \ {Min(S)}, n - 1)

\* (mutant) the loop stops before the last model.
ModelsToDeleteButLast(models) ==
    [i \in 1..(Len(models) - 1) |-> DJANGO_CT \o ":" \o get_model_ct(models[i])]

\* "%s:%s" % (DJANGO_CT, get_model_ct(model)) for model in models
ModelsToDelete(models) ==
    [i \in DOMAIN models |-> DJANGO_CT \o ":" \o get_model_ct(models[i])]

\* {'query': {'query_string': {'query': " OR ".join(models_to_delete)}}}
ClearQuery(tags) == [query |-> [query_string |-> [query |-> Join(" OR ", tags)]]]

\* The engine's reading of that query string: a document matches when its
\* django_ct field carries one of the OR-ed tags.
MatchesTags(d, tags) == (DJANGO_CT \o ":" \o DocCt(d)) \in Range(tags)

\* scan(self.conn, query=query, ...): a generator that has not started.
NewGenerator(query) ==
    [query |-> query, started |-> FALSE, done |-> FALSE, pages |-> 0,
     remaining |-> {}, buffer |-> {}]

\* (mutant) the handler re-raises whatever silently_fail is.
ClearExceptAlwaysRaises(message) ==
    /\ pc' = "idle"
    /\ outcome' = "raised"
    /\ logged' = None

\* except elasticsearch.TransportError as e: of clear
ClearExcept(message) ==
    /\ pc' = "idle"
    /\ outcome' = IF silently_fail THEN "swallowed" ELSE "raised"
    /\ logged' = IF silently_fail THEN message ELSE None

ClearAllMessage == "Failed to clear Elasticsearch index"
ClearModelsMessage ==
    "Failed to clear Elasticsearch index of models '" \o Join(",", models_to_delete) \o "'"

\* Outside clear(models=[...]) its locals do not exist.
NoClearModelsLocals ==
    /\ models_to_delete' = <<>>
    /\ gen' = NewGenerator(ClearQuery(<<>>))
    /\ chunk' = {}

\* Outside more_like_this nothing is sent to conn.search and nothing returned.
NoMltOutput ==
    /\ sent' = EmptyDict
    /\ result' = EmptyDict

StartCall(c) ==
    /\ pc = "idle"
    /\ prev' = [op |-> call.op, outcome |-> outcome]
    /\ call' = c

\* clear(models=None): indices.delete(ignore=404) succeeds, the cache is reset.
ClearAllOk ==
    /\ StartCall([op |-> "clear_all"])
    /\ index_exists' = FALSE
    /\ stored' = {}
    /\ searchable' = {}
    /\ setup_complete' = FALSE
    /\ existing_mapping' = EmptyDict
    /\ content_field_name' = None
    /\ calls' = <<"indices.delete">>
    /\ outcome' = "ok"
    /\ logged' = None
    /\ NoClearModelsLocals
    /\ NoMltOutput
    /\ UNCHANGED <<silently_fail, pc, request>>
    /\ UNCHANGED compilerVars

\* clear(models=None): indices.delete raises a TransportError.
ClearAllFail ==
    /\ StartCall([op |-> "clear_all"])
    /\ calls' = <<"indices.delete">>
    /\ ClearExcept(ClearAllMessage)
    /\ NoClearModelsLocals
    /\ NoMltOutput
    /\ UNCHANGED <<silently_fail, setup_complete, existing_mapping, content_field_name,
                   index_exists, stored, searchable, request>>
    /\ UNCHANGED compilerVars

\* clear(models=[...]) up to the scan() call: the tags, the query, the generator.
\* scan() is a generator function: no request is made before bulk() iterates it.
ClearModelsCall(models) ==
    /\ StartCall([op |-> "clear_models", models |-> models])
    /\ models_to_delete' = ModelsToDelete(models)
    /\ gen' = NewGenerator(ClearQuery(ModelsToDelete(models)))
    /\ chunk' = {}
    /\ calls' = <<"scan">>
    /\ pc' = "bulk_call"
    /\ outcome' = "running"
    /\ logged' = None
    /\ NoMltOutput
    /\ UNCHANGED <<silently_fail, setup_complete, existing_mapping, content_field_name,
                   index_exists, stored, searchable, request>>
    /\ UNCHANGED compilerVars

\* bulk(self.conn, actions=actions, ...) is entered.
BulkCall ==
    /\ pc = "bulk_call"
    /\ calls' = Append(calls, "bulk")
    /\ pc' = "bulk"
    /\ UNCHANGED <<silently_fail, setup_complete, existing_mapping, content_field_name,
                   index_exists, stored, searchable, call, prev,
                   models_to_delete, gen, chunk, outcome, logged, sent, result, request>>
    /\ UNCHANGED compilerVars

NeedsPage == pc = "bulk" /\ gen.buffer = {} /\ ~gen.done /\ Cardinality(chunk) < ChunkSize

\* bulk() pulls the next action and the generator asks the engine for a page:
\* the first search opens the scroll over the matching documents, an empty
\* page ends the scan.
ScanFetch ==
    /\ NeedsPage
    /\ index_exists
    /\ LET pool == IF gen.started THEN gen.remaining
                   ELSE {d \in searchable : MatchesTags(d, models_to_delete)}
           page == TakeMin(pool, ScrollSize)
       IN gen' = [gen EXCEPT !.started = TRUE, !.done = (page = {}),
                                 !.pages = IF page = {} THEN gen.pages ELSE gen.pages + 1,
                                 !.remaining = pool \ page, !.buffer = page]
    /\ UNCHANGED <<silently_fail, setup_complete, existing_mapping, content_field_name,
                   index_exists, stored, searchable, pc, call, prev,
                   models_to_delete, chunk, calls, outcome, logged, sent, result, request>>
    /\ UNCHANGED compilerVars

\* The search / scroll request raises a TransportError: always (404) when the
\* index does not exist, possibly otherwise.
ScanFetchFail ==
    /\ NeedsPage
    /\ ClearExcept(ClearModelsMessage)
    /\ UNCHANGED <<silently_fail, setup_complete, existing_mapping, content_field_name,
                   index_exists, stored, searchable, call, prev,
                   models_to_delete, gen, chunk, calls, sent, result, request>>
    /\ UNCHANGED compilerVars

\* bulk() moves the delete actions of the fetched hits into its current chunk.
BulkPull ==
    /\ pc = "bulk"
    /\ gen.buffer # {}
    /\ Cardinality(chunk) < ChunkSize
    /\ LET taken == TakeMin(gen.buffer, ChunkSize - Cardinality(chunk))
       IN /\ chunk' = chunk \cup taken
          /\ gen' = [gen EXCEPT !.buffer = gen.buffer \ taken]
    /\ UNCHANGED <<silently_fail, setup_complete, existing_mapping, content_field_name,
                   index_exists, stored, searchable, pc, call, prev,
                   models_to_delete, calls, outcome, logged, sent, result, request>>
    /\ UNCHANGED compilerVars

ChunkReady ==
    /\ pc = "bulk"
    /\ chunk # {}
    /\ Cardinality(chunk) = ChunkSize \/ (gen.done /\ gen.buffer = {})

\* bulk() sends the chunk: the engine deletes those ids (deleting an id that
\* is already gone changes nothing).
BulkSend ==
    /\ ChunkReady
    /\ stored' = stored \ chunk
    /\ chunk' = {}
    /\ UNCHANGED <<silently_fail, setup_complete, existing_mapping, content_field_name,
                   index_exists, searchable, pc, call, prev,
                   models_to_delete, gen, calls, outcome, logged, sent, result, request>>
    /\ UNCHANGED compilerVars

BulkSendFail ==
    /\ ChunkReady
    /\ ClearExcept(ClearModelsMessage)
    /\ UNCHANGED <<silently_fail, setup_complete, existing_mapping, content_field_name,
                   index_exists, stored, searchable, call, prev,
                   models_to_delete, gen, chunk, calls, sent, result, request>>
    /\ UNCHANGED compilerVars

BulkReturned == pc = "bulk" /\ gen.done /\ gen.buffer = {} /\ chunk = {}

\* self.conn.indices.refresh(index=self.index_name), after bulk() returned.
Refresh ==
    /\ BulkReturned
    /\ calls' = Append(calls, "indices.refresh")
    /\ searchable' = stored
    /\ pc' = "idle"
    /\ outcome' = "ok"
    /\ UNCHANGED <<silently_fail, setup_complete, existing_mapping, content_field_name,
                   index_exists, stored, call, prev,
                   models_to_delete, gen, chunk, logged, sent, result, request>>
    /\ UNCHANGED compilerVars

RefreshFail ==
    /\ BulkReturned
    /\ calls' = Append(calls, "indices.refresh")
    /\ ClearExcept(ClearModelsMessage)
    /\ UNCHANGED <<silently_fail, setup_complete, existing_mapping, content_field_name,
                   index_exists, stored, searchable, call, prev,
                   models_to_delete, gen, chunk, sent, result, request>>
    /\ UNCHANGED compilerVars


-----------------------------------------------------------------------------
(* more_like_this *)

\* ElasticsearchSearchBackend.setup() of the base class: creates the index
\* when it is missing and fills the mapping cache.
SchemaMapping == [text |-> "text"]
SchemaContentField == "text"

\* Python truth of a string-or-None argument.
Truthy(v) == v \notin {None, "", "False"}

\* sorted(...) of canonical type names: insertion sort, stable.
RECURSIVE InsertCt(_, _)
InsertCt(s, ct) ==
    IF s = <<>> THEN <<ct>>
    ELSE IF CtRank(ct) < CtRank(s[1]) THEN <<ct>> \o s
    ELSE <<s[1]>> \o InsertCt(Tail(s), ct)

\* (mutant) the names are left in the order the models were passed.
UnsortedCts(s) == s

RECURSIVE SortedCts(_)
SortedCts(s) ==
    IF s = <<>> THEN <<>>
    ELSE InsertCt(SortedCts(SubSeq(s, 1, Len(s) - 1)), s[Len(s)])

\* getattr(settings, 'HAYSTACK_LIMIT_TO_REGISTERED_MODELS', True)
LimitSetting(setting) == IF setting = "unset" THEN "True" ELSE setting

\* lines 254-264: the entity-type restriction.
\* models is [none |-> BOOLEAN, items |-> list]; registered is build_models_list().
ModelChoices(models, limit_to_registered_models, setting, registered) ==
    LET limit == IF limit_to_registered_models = None
                 THEN LimitSetting(setting) ELSE limit_to_registered_models
    IN  IF ~models.none /\ Len(models.items) > 0
        THEN SortedCts([i \in DOMAIN models.items |-> get_model_ct(models.items[i])])
        ELSE IF Truthy(limit) THEN registered
        ELSE <<>>

\* lines 244-252 and 266-268: the narrowing queries, in the order appended.
NarrowQueries(additional_query_string, model_choices) ==
    (IF Truthy(additional_query_string) /\ additional_query_string # "*:*"
     THEN <<[query_string |-> [query |-> additional_query_string]]>>
     ELSE <<>>)
    \o
    (IF Len(model_choices) > 0
     THEN <<[terms |-> [k \in {DJANGO_CT} |-> model_choices]]>>
     ELSE <<>>)

\* lines 233-242: the base similarity clause.
BaseMltQuery(field_name, doc_id) ==
    [query |-> [more_like_this |-> [fields |-> <<field_name>>,
                                     like |-> <<[_id |-> doc_id]>>]]]

\* (mutant) a single narrowing query is inlined, as _build_search_kwargs_query
\* does with a single filter.
MltQueryInlineSingle(field_name, doc_id, narrow_queries) ==
    IF Len(narrow_queries) = 0 THEN BaseMltQuery(field_name, doc_id)
    ELSE IF Len(narrow_queries) = 1
    THEN [query |-> [bool |-> [must |-> BaseMltQuery(field_name, doc_id).query,
                               filter |-> narrow_queries[1]]]]
    ELSE [query |-> [bool |-> [must |-> BaseMltQuery(field_name, doc_id).query,
                               filter |-> [bool |-> [must |-> narrow_queries]]]]]

\* lines 270-282: the query document sent.
MltQuery(field_name, doc_id, narrow_queries) ==
    IF Len(narrow_queries) > 0
    THEN [query |-> [bool |-> [must |-> BaseMltQuery(field_name, doc_id).query,
                               filter |-> [bool |-> [must |-> narrow_queries]]]]]
    ELSE BaseMltQuery(field_name, doc_id)

\* lines 222-226: from_ / size.
\* end_offset is [none |-> TRUE] or [none |-> FALSE, value |-> n].
MltParams(start_offset, end_offset) ==
    IF end_offset.none THEN [from_ |-> start_offset]
    ELSE [from_ |-> start_offset, size |-> end_offset.value - start_offset]

-----------------------------------------------------------------------------
(* The request compiler *)

DEFAULT_OPERATOR == "AND"   \* haystack.constants
FUZZINESS == "AUTO"         \* haystack_elasticsearch.constants

\* lines 74-93
BuildSearchKwargsDefault(content_field, query_string) ==
    IF query_string = "*:*"
    THEN [query |-> [match_all |-> EmptyDict]]
    ELSE [query |-> [query_string |->
            [default_field |-> content_field,
             default_operator |-> DEFAULT_OPERATOR,
             query |-> query_string,
             analyze_wildcard |-> TRUE,
             auto_generate_phrase_queries |-> TRUE,
             fuzziness |-> FUZZINESS]]]

\* lines 190-195
BuildSearchFiltersNarrowQuery(q) == [query_string |-> [query |-> q]]

UnboundLocalError == [exception |-> "UnboundLocalError"]

\* lines 197-204: result is bound only inside "if filters:".
BuildSearchKwargsQuery(filters, query) ==
    IF Len(filters) > 0
    THEN IF Len(filters) = 1
         THEN [bool |-> [must |-> query, filter |-> filters[1]]]
         ELSE [bool |-> [must |-> query, filter |-> [bool |-> [must |-> filters]]]]
    ELSE UnboundLocalError

\* Characters, for the strings the compiler takes apart.
UpperCase == <<"A","B","C","D","E","F","G","H","I","J","K","L","M",
               "N","O","P","Q","R","S","T","U","V","W","X","Y","Z">>
LowerCase == <<"a","b","c","d","e","f","g","h","i","j","k","l","m",
               "n","o","p","q","r","s","t","u","v","w","x","y","z">>
Digits == <<"0","1","2","3","4","5","6","7","8","9">>

LowerChar(c) ==
    IF \E i \in DOMAIN UpperCase : UpperCase[i] = c
    THEN LowerCase[CHOOSE i \in DOMAIN UpperCase : UpperCase[i] = c]
    ELSE c

\* str.lower()
Lower(str) == [i \in DOMAIN str |-> LowerChar(str[i])]

\* "%s" % n for an int n >= 0
RECURSIVE IntToStr(_)
IntToStr(n) ==
    IF n < 10 THEN <<Digits[n + 1]>>
    ELSE IntToStr(n \div 10) \o <<Digits[(n % 10) + 1]>>

\* interval[:1]
FirstChar(str) == SubSeq(str, 1, IF Len(str) < 1 THEN Len(str) ELSE 1)

\* (mutant) the multiplier is applied to month and year as well.
DateIntervalAnyUnit(value) ==
    LET interval == Lower(value.gap_by)
        gap_amount == IF "gap_amount" \in DOMAIN value THEN value.gap_amount ELSE 1
    IN  IF gap_amount # 1
        THEN IntToStr(value.gap_amount) \o FirstChar(interval)
        ELSE interval

\* lines 143-148: the date_histogram interval.
DateInterval(value) ==
    LET interval == Lower(value.gap_by)
        gap_amount == IF "gap_amount" \in DOMAIN value THEN value.gap_amount ELSE 1
    IN  IF gap_amount # 1 /\ interval \notin {<<"m","o","n","t","h">>, <<"y","e","a","r">>}
        THEN IntToStr(value.gap_amount) \o FirstChar(interval)
        ELSE interval

\* self._from_python of the base class, on None and on dates.
FromPython(v) ==
    CASE v = "date(2020, 1, 1)" -> "2020-01-01T00:00:00"
      [] v = "date(2021, 6, 30)" -> "2021-06-30T00:00:00"
      [] OTHER -> v

Get(d, k) == IF k \in DOMAIN d THEN d[k] ELSE None

\* lines 150-173: one date facet.
DateFacetOptions(facet_fieldname, value) ==
    [meta |-> [_type |-> "date_histogram"],
     date_histogram |-> [field |-> facet_fieldname, interval |-> DateInterval(value)],
     aggs |-> [f \in {facet_fieldname} |->
                [date_range |-> [field |-> facet_fieldname,
                                 ranges |-> <<[from |-> FromPython(Get(value, "start_date")),
                                               to |-> FromPython(Get(value, "end_date"))]>>]]]]

\* lines 177-186: one query facet.
QueryFacetOptions(value) ==
    [meta |-> [_type |-> "query"],
     filter |-> [query_string |-> [query |-> value]]]

\* index.get_facet_fieldname(facet_fieldname) of the unified index.
GetFacetFieldname(facet_fieldname) == facet_fieldname \o "_exact"

\* The three options taken out of extra_options by lines 127-136.
FacetLevelOptions == {"order", "global_scope", "facet_filter"}

\* What lines 127-136 leave in extra_options: each pop() removes its key
\* from the mapping the caller handed in.
PoppedOptions(extra_options) ==
    [k \in DOMAIN extra_options \ FacetLevelOptions |-> extra_options[k]]

\* lines 119-138: one terms facet.
TermsFacetOptions(facet_fieldname, extra_options) ==
    LET meta == IF "order" \in DOMAIN extra_options
                THEN [_type |-> "terms", order |-> extra_options.order]
                ELSE [_type |-> "terms"]
        global == IF "global_scope" \in DOMAIN extra_options /\ extra_options.global_scope
                  THEN [k \in {"global"} |-> TRUE] ELSE EmptyDict
        facet_filter == IF "facet_filter" \in DOMAIN extra_options
                        THEN [facet_filter |-> extra_options.facet_filter] ELSE EmptyDict
        terms == Update([field |-> GetFacetFieldname(facet_fieldname)],
                        PoppedOptions(extra_options))
    IN  Update(Update([meta |-> meta, terms |-> terms], global), facet_filter)

\* lines 112-188: the aggregation clause.  query_facets is a list of
\* (fieldname, value) pairs; later entries of result overwrite earlier ones.
RECURSIVE QueryFacetsResult(_)
QueryFacetsResult(query_facets) ==
    IF query_facets = <<>> THEN EmptyDict
    ELSE Update(QueryFacetsResult(SubSeq(query_facets, 1, Len(query_facets) - 1)),
                [f \in {query_facets[Len(query_facets)][1]} |->
                    QueryFacetOptions(query_facets[Len(query_facets)][2])])

BuildSearchKwargsFacets(facets_, date_facets, query_facets) ==
    Update(Update([f \in DOMAIN facets_ |-> TermsFacetOptions(f, facets_[f])],
                  [f \in DOMAIN date_facets |-> DateFacetOptions(f, date_facets[f])]),
           QueryFacetsResult(query_facets))

\* The facets mapping after the compilation: the caller's, with the pops applied.
FacetsAfterBuild(facets_) == [f \in DOMAIN facets_ |-> PoppedOptions(facets_[f])]

\* Elasticsearch5SearchQuery.add_field_facet: self.facets[field] = options.copy()
AddFieldFacetTo(facets_, field, options) ==
    Update(facets_, [f \in {field} |-> options])

-----------------------------------------------------------------------------
(* _process_results *)

\* (mutant) the pairs are sorted descending by count.
RECURSIVE InsertByCountDescending(_, _)
InsertByCountDescending(s, pair) ==
    IF s = <<>> THEN <<pair>>
    ELSE IF pair[2] > s[1][2] THEN <<pair>> \o s
    ELSE <<s[1]>> \o InsertByCountDescending(Tail(s), pair)

\* sorted(pairs, key=lambda x: x[1]): insertion sort, stable.
RECURSIVE InsertByCount(_, _)
InsertByCount(s, pair) ==
    IF s = <<>> THEN <<pair>>
    ELSE IF pair[2] < s[1][2] THEN <<pair>> \o s
    ELSE <<s[1]>> \o InsertByCount(Tail(s), pair)

RECURSIVE SortedByCount(_)
SortedByCount(s) ==
    IF s = <<>> THEN <<>>
    ELSE InsertByCount(SortedByCount(SubSeq(s, 1, Len(s) - 1)), s[Len(s)])

\* lines 316-320: a terms aggregation.
DecodeTerms(facet_info) ==
    LET pairs == [i \in DOMAIN facet_info.buckets |->
                     <<facet_info.buckets[i].key, facet_info.buckets[i].doc_count>>]
    IN  IF "order" \in DOMAIN facet_info.meta /\ facet_info.meta.order = "reverse_count"
        THEN SortedByCount(pairs)
        ELSE pairs

\* datetime.datetime.utcfromtimestamp(key / 1000): the epoch second and the
\* milliseconds left over.
UtcFromMillis(key) == [second |-> key \div 1000, millisecond |-> key % 1000]

\* line 324: a date_histogram aggregation.
DecodeDates(facet_info) ==
    [i \in DOMAIN facet_info.buckets |->
        <<UtcFromMillis(facet_info.buckets[i].key), facet_info.buckets[i].doc_count>>]

OfType(aggregations, facet_type) ==
    {f \in DOMAIN aggregations : aggregations[f].meta._type = facet_type}

\* (mutant) the three mappings are set up whatever the response holds.
DecodeFacetsAlwaysThreeMappings(raw_results) ==
    LET aggregations == IF "aggregations" \in DOMAIN raw_results
                        THEN raw_results.aggregations ELSE EmptyDict
    IN [fields  |-> [f \in OfType(aggregations, "terms") |-> DecodeTerms(aggregations[f])],
        dates   |-> [f \in OfType(aggregations, "date_histogram") |-> DecodeDates(aggregations[f])],
        queries |-> [f \in OfType(aggregations, "query") |-> aggregations[f].doc_count]]

\* lines 305-326: the facets structure.
DecodeFacets(raw_results) ==
    IF "aggregations" \in DOMAIN raw_results
    THEN LET aggregations == raw_results.aggregations
         IN [fields  |-> [f \in OfType(aggregations, "terms") |-> DecodeTerms(aggregations[f])],
             dates   |-> [f \in OfType(aggregations, "date_histogram") |-> DecodeDates(aggregations[f])],
             queries |-> [f \in OfType(aggregations, "query") |-> aggregations[f].doc_count]]
    ELSE EmptyDict

\* The base class's _process_results: the hit records and their number.
BaseProcessResults(raw_results) ==
    IF "hits" \in DOMAIN raw_results
    THEN [results |-> raw_results.hits.hits, hits |-> raw_results.hits.total]
    ELSE [results |-> <<>>, hits |-> 0]

\* lines 299-328
ProcessResults(raw_results) ==
    Update(BaseProcessResults(raw_results), [facets |-> DecodeFacets(raw_results)])

-----------------------------------------------------------------------------
(* more_like_this, the call *)

RECURSIVE SetToSeq(_)
SetToSeq(S) == IF S = {} THEN <<>> ELSE <<Min(S)>> \o SetToSeq(S \ {Min(S)})

\* The engine's answer to the similarity search: the searchable documents the
\* type filter lets through.  The request carries no aggregations, so neither
\* does the response.
SearchResponse(model_choices) ==
    LET hits == SetToSeq({d \in searchable :
                            model_choices = <<>> \/ DocCt(d) \in Range(model_choices)})
    IN [hits |-> [total |-> Len(hits), hits |-> hits]]

ReferenceDocId == "app.x.1"          \* get_identifier(model_instance)
ReferenceField == SchemaContentField \* index.get_content_field()

\* lines 211-212: if not self.setup_complete: self.setup()
MltSetup ==
    IF setup_complete
    THEN UNCHANGED <<setup_complete, existing_mapping, content_field_name, index_exists>>
    ELSE /\ setup_complete' = TRUE
         /\ existing_mapping' = SchemaMapping
         /\ content_field_name' = SchemaContentField
         /\ index_exists' = TRUE

MltCallRecord(aqs, models, limit, setting, registered, end_offset) ==
    [op |-> "more_like_this", additional_query_string |-> aqs, models |-> models,
     limit_to_registered_models |-> limit, setting |-> setting,
     registered |-> registered, end_offset |-> end_offset]

MltBody(c) ==
    MltQuery(ReferenceField, ReferenceDocId,
             NarrowQueries(c.additional_query_string,
                           ModelChoices(c.models, c.limit_to_registered_models,
                                        c.setting, c.registered)))

\* lines 289-295: except elasticsearch.TransportError as e:
MltExcept ==
    /\ outcome' = IF silently_fail THEN "swallowed" ELSE "raised"
    /\ logged' = IF silently_fail
                 THEN "Failed to fetch More Like This from Elasticsearch for document '"
                      \o ReferenceDocId \o "'"
                 ELSE None
    /\ result' = IF silently_fail THEN ProcessResults(EmptyDict)
                 ELSE [exception |-> "TransportError"]

MoreLikeThis(c) ==
    /\ StartCall(c)
    /\ MltSetup
    /\ sent' = [body |-> MltBody(c), params |-> MltParams(0, c.end_offset)]
    /\ outcome' = "ok"
    /\ logged' = None
    /\ result' = ProcessResults(SearchResponse(
                    ModelChoices(c.models, c.limit_to_registered_models,
                                 c.setting, c.registered)))
    /\ NoClearModelsLocals
    /\ calls' = <<"search">>
    /\ UNCHANGED <<silently_fail, stored, searchable, pc, request>>
    /\ UNCHANGED compilerVars

MoreLikeThisFail(c) ==
    /\ StartCall(c)
    /\ MltSetup
    /\ sent' = [body |-> MltBody(c), params |-> MltParams(0, c.end_offset)]
    /\ MltExcept
    /\ NoClearModelsLocals
    /\ calls' = <<"search">>
    /\ UNCHANGED <<silently_fail, stored, searchable, pc, request>>
    /\ UNCHANGED compilerVars

AdditionalQueryStrings == {None, "", "*:*", "title:foo"}
ModelsArgs == {[none |-> TRUE, items |-> <<>>]} \cup {[none |-> FALSE, items |-> m] : m \in ModelLists}
LimitArgs == {None, "True", "False"}
LimitSettings == {"unset", "True", "False"}
RegisteredLists == {<<>>, <<"app.x", "app.y">>}
EndOffsets == {[none |-> TRUE], [none |-> FALSE, value |-> 10]}

MltCalls ==
    {MltCallRecord(aqs, models, limit, setting, registered, end_offset) :
        aqs \in AdditionalQueryStrings, models \in ModelsArgs, limit \in LimitArgs,
        setting \in LimitSettings, registered \in RegisteredLists, end_offset \in EndOffsets}

\* The similarity calls the backend specification interleaves with clear.
BackendMltCalls ==
    {MltCallRecord(aqs, models, None, "unset", <<"app.x", "app.y">>, [none |-> TRUE]) :
        aqs \in {None},
        models \in {[none |-> TRUE, items |-> <<>>],
                    [none |-> FALSE, items |-> <<[app_label |-> "app", model_name |-> "x"]>>]}}

-----------------------------------------------------------------------------
(* The backend: construction, and the caller's calls *)

CompilerIdle ==
    /\ facets = EmptyDict
    /\ op = "none"
    /\ args = EmptyDict
    /\ ret = EmptyDict
    /\ aggs = EmptyDict
    /\ first_aggs = EmptyDict
    /\ ncompiled = 0

\* Elasticsearch5SearchBackend.__init__, before any call.
BackendIdle ==
    /\ setup_complete = FALSE
    /\ existing_mapping = EmptyDict
    /\ content_field_name = None
    /\ searchable = stored
    /\ pc = "idle"
    /\ call = [op |-> "none"]
    /\ prev = [op |-> "none", outcome |-> "none"]
    /\ models_to_delete = <<>>
    /\ gen = NewGenerator(ClearQuery(<<>>))
    /\ chunk = {}
    /\ calls = <<>>
    /\ outcome = "none"
    /\ logged = None
    /\ sent = EmptyDict
    /\ result = EmptyDict

Init ==
    /\ silently_fail \in BOOLEAN
    /\ index_exists \in BOOLEAN
    /\ stored \in (IF index_exists THEN SUBSET DocIds ELSE {{}})
    /\ request = EmptyDict
    /\ BackendIdle
    /\ CompilerIdle

Next ==
    \/ ClearAllOk
    \/ ClearAllFail
    \/ \E models \in ModelLists : ClearModelsCall(models)
    \/ BulkCall
    \/ ScanFetch
    \/ ScanFetchFail
    \/ BulkPull
    \/ BulkSend
    \/ BulkSendFail
    \/ Refresh
    \/ RefreshFail
    \/ \E c \in BackendMltCalls : MoreLikeThis(c)
    \/ \E c \in BackendMltCalls : MoreLikeThisFail(c)

Spec == Init /\ [][Next]_vars

\* more_like_this alone, over every combination of its arguments.
InitMlt ==
    /\ silently_fail \in BOOLEAN
    /\ index_exists = TRUE
    /\ stored = DocIds
    /\ request \in MltCalls
    /\ BackendIdle
    /\ CompilerIdle

NextMlt ==
    \/ MoreLikeThis(request)
    \/ MoreLikeThisFail(request)

SpecMlt == InitMlt /\ [][NextMlt]_vars

-----------------------------------------------------------------------------
(* The request compiler and the response decoder, applied to one request *)

Subdicts(d) == {[k \in K |-> d[k]] : K \in SUBSET DOMAIN d}

\* The options a caller gives add_field_facet.
TermsOptionDicts ==
    UNION {Subdicts([order |-> o, global_scope |-> g, facet_filter |-> "lang:en", size |-> 10]) :
              o \in {"reverse_count", "count"}, g \in BOOLEAN}

GapUnits == {<<"d","a","y">>, <<"D","a","y">>, <<"H","O","U","R">>, <<"w","e","e","k">>,
             <<"m","o","n","t","h">>, <<"M","o","n","t","h">>,
             <<"y","e","a","r">>, <<"Y","E","A","R">>}

DateValues ==
    UNION {{[gap_by |-> u], [gap_by |-> u, gap_amount |-> n]} :
              u \in GapUnits, n \in 0..MaxGapAmount}
    \cup {Update([gap_by |-> <<"d","a","y">>, gap_amount |-> 2], d) :
              d \in Subdicts([start_date |-> "date(2020, 1, 1)", end_date |-> "date(2021, 6, 30)"])}

FilterLists == SeqsUpTo({BuildSearchFiltersNarrowQuery(q) : q \in {"lang:en", "year:2020"}},
                        MaxFilters)

DefaultRequest ==
    [terms_facet |-> FALSE, options |-> EmptyDict, date_facets |-> EmptyDict,
     query_facets |-> <<>>, filters |-> <<>>, query_string |-> "*:*"]

Requests ==
    {[DefaultRequest EXCEPT !.terms_facet = TRUE, !.options = o, !.date_facets = d,
                            !.query_facets = q] :
        o \in TermsOptionDicts,
        d \in {EmptyDict, [pub_date |-> [gap_by |-> <<"d","a","y">>, gap_amount |-> 2]]},
        q \in {<<>>, <<<<"recent", "pub_date:[NOW-1DAY TO *]">>>>}}
    \cup {[DefaultRequest EXCEPT !.date_facets = [pub_date |-> v]] : v \in DateValues}
    \cup {[DefaultRequest EXCEPT !.filters = f, !.query_string = q] :
            f \in FilterLists, q \in {"*:*", "foo"}}

FacetField == "author"

\* SearchQuery.add_field_facet(field, **options)
AddFieldFacet ==
    /\ request.terms_facet
    /\ FacetField \notin DOMAIN facets
    /\ facets' = AddFieldFacetTo(facets, FacetField, request.options)
    /\ op' = "add_field_facet"
    /\ args' = [field |-> FacetField, options |-> request.options]
    /\ ret' = EmptyDict
    /\ UNCHANGED <<aggs, first_aggs, ncompiled>>
    /\ UNCHANGED backendVars

\* _build_search_kwargs_facets(self.facets, date_facets, query_facets)
BuildFacets ==
    /\ request.terms_facet => FacetField \in DOMAIN facets
    /\ ncompiled < MaxCompiles
    /\ LET clause == BuildSearchKwargsFacets(facets, request.date_facets, request.query_facets)
       IN /\ ret' = [key |-> "aggs", value |-> clause]
          /\ aggs' = clause
          /\ first_aggs' = IF ncompiled = 0 THEN clause ELSE first_aggs
    /\ facets' = FacetsAfterBuild(facets)
    /\ op' = "_build_search_kwargs_facets"
    /\ args' = [facets |-> facets, date_facets |-> request.date_facets,
                query_facets |-> request.query_facets]
    /\ ncompiled' = ncompiled + 1
    /\ UNCHANGED backendVars

\* _build_search_kwargs_query(filters, query)
BuildQuery ==
    /\ LET query == BuildSearchKwargsDefault(SchemaContentField, request.query_string).query
       IN /\ args' = [filters |-> request.filters, query |-> query]
          /\ ret' = BuildSearchKwargsQuery(request.filters, query)
    /\ op' = "_build_search_kwargs_query"
    /\ UNCHANGED <<facets, aggs, first_aggs, ncompiled>>
    /\ UNCHANGED backendVars

\* What the engine answers.
BucketKeys == <<"A", "B", "C", "D", "E">>
BucketCounts == {2, 5, 9}
BucketLists ==
    UNION {{[i \in 1..n |-> [key |-> BucketKeys[i], doc_count |-> c[i]]] :
               c \in [1..n -> BucketCounts]} : n \in 0..MaxBuckets}

SomeHits == [total |-> 1, hits |-> <<1>>]

\* The engine echoes each aggregation's meta beside its buckets.
EchoAggregations(aggs_, buckets) ==
    [f \in DOMAIN aggs_ |->
        CASE aggs_[f].meta._type = "terms" ->
                [meta |-> aggs_[f].meta, buckets |-> buckets]
          [] aggs_[f].meta._type = "date_histogram" ->
                [meta |-> aggs_[f].meta,
                 buckets |-> <<[key |-> 1000000500, doc_count |-> 3]>>]
          [] OTHER ->
                [meta |-> aggs_[f].meta, doc_count |-> 7]]

RawResponses ==
    {EmptyDict, [hits |-> SomeHits], [hits |-> SomeHits, aggregations |-> EmptyDict]}
    \cup (IF ncompiled > 0
          THEN {[hits |-> SomeHits, aggregations |-> EchoAggregations(aggs, b)] :
                   b \in BucketLists}
          ELSE {})

\* _process_results(raw_results): the response to the request last sent is
\* decoded, once.
Decode(raw_results) ==
    /\ op # "_process_results"
    /\ op' = "_process_results"
    /\ args' = [raw_results |-> raw_results]
    /\ ret' = ProcessResults(raw_results)
    /\ UNCHANGED <<facets, aggs, first_aggs, ncompiled>>
    /\ UNCHANGED backendVars

InitCompile ==
    /\ silently_fail = FALSE
    /\ index_exists = TRUE
    /\ stored = DocIds
    /\ request \in Requests
    /\ BackendIdle
    /\ CompilerIdle

NextCompile ==
    \/ AddFieldFacet
    \/ BuildFacets
    \/ BuildQuery
    \/ \E raw_results \in RawResponses : Decode(raw_results)

SpecCompile == InitCompile /\ [][NextCompile]_vars

-----------------------------------------------------------------------------
(* Properties of clear *)

IsPrefix(s, t) == Len(s) <= Len(t) /\ s = SubSeq(t, 1, Len(s))

ClearCallOrder == <<"scan", "bulk", "indices.refresh">>

\* The canonical type names of the models given to the current clear call.
GivenTypes == {get_model_ct(call.models[i]) : i \in DOMAIN call.models}

C1_AtReturn ==
    call.op = "clear_models" =>
        /\ IsPrefix(calls, ClearCallOrder)
        /\ (pc = "idle" /\ outcome = "ok") =>
              /\ calls = ClearCallOrder
              /\ \A d \in stored \cup searchable : DocCt(d) \notin GivenTypes

C1_Step ==
    call'.op = "clear_models" =>
        /\ stored' \subseteq stored
        /\ \A d \in stored \ stored' : d \in searchable /\ DocCt(d) \in GivenTypes
        /\ stored' # stored => calls = <<"scan", "bulk">> /\ calls' = calls
        /\ searchable' # searchable => calls' = ClearCallOrder /\ searchable' = stored' 

C2_PartialClearAfterFullClearIsNoOp ==
    (call.op = "clear_models" /\ pc = "idle"
        /\ prev = [op |-> "clear_all", outcome |-> "ok"]) =>
        /\ outcome # "raised"
        /\ ~index_exists
        /\ stored = {}
        /\ searchable = {}
        /\ ~setup_complete
        /\ existing_mapping = EmptyDict
        /\ content_field_name = None

-----------------------------------------------------------------------------
(* Properties of the failure handling *)

\* The steps at which a transport request of clear or more_like_this fails.
TransportFailure ==
    \/ ClearAllFail
    \/ ScanFetchFail
    \/ BulkSendFail
    \/ RefreshFail
    \/ \E c \in BackendMltCalls : MoreLikeThisFail(c)

\* The decoding of an empty response: no hits, empty facets.
EmptyResult == [results |-> <<>>, hits |-> 0, facets |-> EmptyDict]

C3_Outcome ==
    /\ pc' = "idle"
    /\ ~silently_fail => (outcome' = "raised" /\ logged' = None)
    /\ silently_fail =>
          /\ outcome' = "swallowed"
          /\ logged' # None
          /\ call'.op = "more_like_this" => result' = EmptyResult
          /\ call'.op \in {"clear_all", "clear_models"} => result' = EmptyDict

\* C3: a transport failure at any step of clear (index delete, scan, bulk,
\* refresh) or of more_like_this (search) ends the call in one of two ways:
\* with silently_fail false it reaches the caller and nothing is logged; with
\* silently_fail true it is logged and the call returns - clear returns
\* nothing, more_like_this returns the decoding of an empty response (no hits,
\* empty facets) - and never raises.
C3_TransportFailureOutcomes == [][TransportFailure => C3_Outcome]_vars

\* Under silently_fail a failed similarity search was swallowed, and then a
\* clear of some types failed at its refresh and was swallowed too.
C3_Witness ==
    /\ silently_fail
    /\ prev = [op |-> "more_like_this", outcome |-> "swallowed"]
    /\ call.op = "clear_models"
    /\ pc = "idle"
    /\ outcome = "swallowed"
    /\ calls = ClearCallOrder
    /\ logged # None

-----------------------------------------------------------------------------
(* Properties of more_like_this *)

\* The narrowing queries of the body sent, <<>> for a bare clause.
SentNarrowQueries ==
    IF "bool" \in DOMAIN sent.body.query
    THEN sent.body.query.bool.filter.bool.must
    ELSE <<>>

\* The type names of the terms filter sent, <<>> when there is none.
SentTypeNames ==
    LET n == SentNarrowQueries
    IN  IF Len(n) > 0 /\ "terms" \in DOMAIN n[Len(n)] THEN n[Len(n)].terms[DJANGO_CT]
        ELSE <<>>

ExplicitModels == ~call.models.none /\ Len(call.models.items) > 0

LimitActive ==
    IF call.limit_to_registered_models = None
    THEN call.setting # "False"
    ELSE call.limit_to_registered_models = "True"

IsSortedCts(s) == \A i, j \in DOMAIN s : i < j => CtRank(s[i]) <= CtRank(s[j])
NoDuplicates(s) == \A i, j \in DOMAIN s : i # j => s[i] # s[j]

\* C6 (as amended): the type restriction of more_like_this: explicit models
\* give their canonical type names sorted, one entry per model passed (a model
\* passed twice is named twice); otherwise, with limit-to-registered-models
\* active, the list of build_models_list() (no filter when it is empty);
\* otherwise no type filter.
C6_TypeRestrictionSortedPerModel ==
    call.op = "more_like_this" =>
        IF ExplicitModels
        THEN /\ IsSortedCts(SentTypeNames)
             /\ Len(SentTypeNames) = Len(call.models.items)
             /\ \A ct \in Range(SentTypeNames) \cup
                          {get_model_ct(m) : m \in Range(call.models.items)} :
                    Len(SelectSeq(SentTypeNames, LAMBDA x : x = ct))
                      = Len(SelectSeq(call.models.items, LAMBDA m : get_model_ct(m) = ct))
        ELSE IF LimitActive
        THEN SentTypeNames = call.registered
        ELSE SentTypeNames = <<>>

\* The same model was passed twice
\* and its type name was sent twice.
C6_Witness ==
    /\ call.op = "more_like_this"
    /\ outcome = "ok"
    /\ ExplicitModels
    /\ \E i, j \in DOMAIN call.models.items :
          i # j /\ call.models.items[i] = call.models.items[j]
    /\ ~NoDuplicates(SentTypeNames)
    /\ Len(SentTypeNames) = MaxModels

\* C6 (as stated): the type restriction of more_like_this: explicit models
\* give their canonical type names sorted and with no name twice; otherwise,
\* with limit-to-registered-models active, the list of build_models_list();
\* otherwise no type filter.
C6_TypeRestrictionByPriority ==
    call.op = "more_like_this" =>
        IF ExplicitModels
        THEN /\ IsSortedCts(SentTypeNames)
             /\ NoDuplicates(SentTypeNames)
             /\ Range(SentTypeNames) = {get_model_ct(m) : m \in Range(call.models.items)}
        ELSE IF LimitActive
        THEN SentTypeNames = call.registered
        ELSE SentTypeNames = <<>>

HasAdditionalQuery == call.additional_query_string \notin {None, "", "*:*"}
TypeRestricted == ExplicitModels \/ (LimitActive /\ call.registered # <<>>)

BareSimilarityClause ==
    [query |-> [more_like_this |-> [fields |-> <<"text">>,
                                     like |-> <<[_id |-> ReferenceDocId]>>]]]

\* C7: the body more_like_this sends is the bare more_like_this clause exactly
\* when no narrowing query accumulated (no additional query string, or the
\* "*:*" sentinel, and no type restriction); otherwise it is
\* bool{must: base clause, filter: bool{must: [narrowing queries]}}, the
\* additional-query-string filter before the type filter.
C7_BareOrWrapped ==
    call.op = "more_like_this" =>
        IF ~HasAdditionalQuery /\ ~TypeRestricted
        THEN sent.body = BareSimilarityClause
        ELSE /\ DOMAIN sent.body.query = {"bool"}
             /\ DOMAIN sent.body.query.bool = {"must", "filter"}
             /\ sent.body.query.bool.must = BareSimilarityClause.query
             /\ DOMAIN sent.body.query.bool.filter = {"bool"}
             /\ DOMAIN sent.body.query.bool.filter.bool = {"must"}
             /\ LET n == sent.body.query.bool.filter.bool.must
                IN /\ Len(n) = (IF HasAdditionalQuery THEN 1 ELSE 0)
                              + (IF TypeRestricted THEN 1 ELSE 0)
                   /\ HasAdditionalQuery =>
                        n[1] = [query_string |-> [query |-> call.additional_query_string]]
                   /\ TypeRestricted =>
                        /\ DOMAIN n[Len(n)] = {"terms"}
                        /\ DOMAIN n[Len(n)].terms = {DJANGO_CT}
                        /\ Len(n[Len(n)].terms[DJANGO_CT]) > 0

\* A similarity search with both an additional query string and explicit
\* models was sent and answered.
C7_Witness ==
    /\ call.op = "more_like_this"
    /\ outcome = "ok"
    /\ HasAdditionalQuery
    /\ ExplicitModels
    /\ Len(SentNarrowQueries) = 2

-----------------------------------------------------------------------------
(* Properties of the request compiler and the response decoder *)

\* C4: _build_search_kwargs_query never fails; without filters it returns the
\* relevance clause, with one filter bool{must: query, filter: that filter},
\* with more bool{must: query, filter: bool{must: filters}}.
C4_FilterCombination ==
    op = "_build_search_kwargs_query" =>
        /\ "exception" \notin DOMAIN ret
        /\ Len(args.filters) = 0 => ret = args.query
        /\ Len(args.filters) = 1 =>
              ret = [bool |-> [must |-> args.query, filter |-> args.filters[1]]]
        /\ Len(args.filters) >= 2 =>
              ret = [bool |-> [must |-> args.query,
                               filter |-> [bool |-> [must |-> args.filters]]]]

\* C5: compiling leaves the facets mapping it is given unchanged, and a
\* second compilation of the same request yields the same aggregation clause.
C5_CompilingDoesNotModifyTheRequest ==
    /\ op = "_build_search_kwargs_facets" => facets = args.facets
    /\ ncompiled >= 2 => aggs = first_aggs

ThreeEmptyMappings == [fields |-> EmptyDict, dates |-> EmptyDict, queries |-> EmptyDict]

Pairs(buckets) == [i \in DOMAIN buckets |-> <<buckets[i].key, buckets[i].doc_count>>]

\* out is pairs sorted ascending by count, equal counts in the order of pairs.
StableAscending(out, pairs) ==
    /\ Len(out) = Len(pairs)
    /\ \A i, j \in DOMAIN out : i < j => out[i][2] <= out[j][2]
    /\ \A c \in {pairs[i][2] : i \in DOMAIN pairs} \cup {out[i][2] : i \in DOMAIN out} :
          SelectSeq(out, LAMBDA x : x[2] = c) = SelectSeq(pairs, LAMBDA x : x[2] = c)

C9_Compiled ==
    op = "_build_search_kwargs_facets" =>
        \A f \in DOMAIN args.facets :
            "order" \in DOMAIN args.facets[f] =>
                /\ "order" \notin DOMAIN ret.value[f].terms
                /\ "order" \in DOMAIN ret.value[f].meta
                /\ ret.value[f].meta.order = args.facets[f].order

C9_Decoded ==
    (op = "_process_results" /\ "aggregations" \in DOMAIN args.raw_results) =>
        \A f \in DOMAIN args.raw_results.aggregations :
            LET info == args.raw_results.aggregations[f]
            IN  info.meta._type = "terms" =>
                    IF "order" \in DOMAIN info.meta /\ info.meta.order = "reverse_count"
                    THEN StableAscending(ret.facets.fields[f], Pairs(info.buckets))
                    ELSE ret.facets.fields[f] = Pairs(info.buckets)

\* C9: a terms facet with order = 'reverse_count' is compiled with the order
\* in the aggregation's meta, not in the terms clause; decoding a response
\* that echoes that meta gives the (term, count) pairs ascending by count,
\* equal counts in bucket order; without that order, the pairs in bucket order.
C9_ReverseCountRoundTrip == C9_Compiled /\ C9_Decoded

\* The facet was added with order = 'reverse_count', compiled, and the
\* response with buckets (A,5), (B,2), (C,9) decoded to (B,2), (A,5), (C,9).
C9_Witness ==
    /\ op = "_process_results"
    /\ request.terms_facet
    /\ "order" \in DOMAIN request.options
    /\ request.options.order = "reverse_count"
    /\ "aggregations" \in DOMAIN args.raw_results
    /\ FacetField \in DOMAIN args.raw_results.aggregations
    /\ "order" \in DOMAIN args.raw_results.aggregations[FacetField].meta
    /\ Pairs(args.raw_results.aggregations[FacetField].buckets)
          = << <<"A", 5>>, <<"B", 2>>, <<"C", 9>> >>
    /\ ret.facets.fields[FacetField] = << <<"B", 2>>, <<"A", 5>>, <<"C", 9>> >>

Month == <<"m","o","n","t","h">>
Year == <<"y","e","a","r">>

C10_Interval(value) ==
    LET unit == Lower(value.gap_by)
    IN  IF "gap_amount" \notin DOMAIN value \/ value.gap_amount = 1 \/ unit \in {Month, Year}
        THEN unit
        ELSE IntToStr(value.gap_amount) \o <<unit[1]>>

\* C10: the compiled date_histogram interval is the lowercased gap unit when
\* the multiplier is absent or 1 or the unit is month or year; otherwise the
\* multiplier followed by the first letter of the lowercased unit
\* (day, 2 -> "2d"; month, 3 -> "month"; year, 5 -> "year").
C10_DateHistogramInterval ==
    op = "_build_search_kwargs_facets" =>
        \A f \in DOMAIN args.date_facets :
            LET value == args.date_facets[f]
                interval == ret.value[f].date_histogram.interval
            IN  /\ interval = C10_Interval(value)
                /\ value = [gap_by |-> <<"d","a","y">>, gap_amount |-> 2]
                      => interval = <<"2","d">>
                /\ value = [gap_by |-> <<"M","o","n","t","h">>, gap_amount |-> 3]
                      => interval = <<"m","o","n","t","h">>
                /\ value = [gap_by |-> <<"y","e","a","r">>, gap_amount |-> 5]
                      => interval = <<"y","e","a","r">>
                /\ value = [gap_by |-> <<"H","O","U","R">>, gap_amount |-> 12]
                      => interval = <<"1","2","h">>

\* A date facet with gap "Month" and multiplier 3 was compiled to "month".
C10_Witness ==
    /\ op = "_build_search_kwargs_facets"
    /\ "pub_date" \in DOMAIN args.date_facets
    /\ args.date_facets.pub_date = [gap_by |-> <<"M","o","n","t","h">>, gap_amount |-> 3]
    /\ ret.value.pub_date.date_histogram.interval = <<"m","o","n","t","h">>

====
